---- MODULE Spec2Model ----
(***************************************************************************)
(* Model of docs/conf.py, the Sphinx configuration module of               *)
(* Configurature.  Sphinx executes the module top to bottom once per       *)
(* documentation build and then reads the module namespace.                *)
(*                                                                         *)
(* State: the checkout the build runs in (branch and the version metadata  *)
(* setuptools_scm derives from it), the position in the module (pc, named  *)
(* after the line about to execute), the module namespace (ns), and the    *)
(* record of the calls made to the two setuptools_scm entry points.        *)
(*                                                                         *)
(* Strings that are only compared are TLA+ strings.  Version strings are   *)
(* sequences of string pieces, so that what a scheme appends is visible:   *)
(*   "1.1.dev2+g1a2b3c4.d20240102"  is                                     *)
(*   <<"1", ".", "1", ".dev", "2", "+", "g1a2b3c4", ".d", "20240102">>.    *)
(***************************************************************************)
EXTENDS Naturals, Sequences, FiniteSets, TLC

VARIABLES
    branch,     \* what GitWorkdir(...).get_branch() reports for the checkout
    scm,        \* the version metadata (ScmVersion) of the checkout
    pc,         \* line of conf.py about to execute, or "done" / "failed"
    ns,         \* the module namespace: top-level name -> value
    queries,    \* number of get_branch() calls made in this run
    calls,      \* the get_version() calls made in this run, in order
    assigns,    \* number of assignments to release made in this run
    failure,    \* the step whose exception ended this run ("none" if none)
    prev        \* <<>> or <<the last successfully loaded configuration>>

vars == <<branch, scm, pc, ns, queries, calls, assigns, failure, prev>>

----------------------------------------------------------------------------
(* Bounds and input sets *)

MaxDistance == 1

\* Python None: get_branch() returns None when git cannot name the branch.
None == <<>>
Some(s) == <<s>>

Branches ==
    {None, Some("stable"), Some("Stable"), Some("stable-1.0"),
     Some("origin/stable"), Some("main")}

\* Latest tag, parsed: a release number as a sequence of naturals.
Tags == {<<1, 0>>, <<2, 1, 9>>}
Nodes == {"g1a2b3c4"}
Dates == {"20240101", "20240102"}

ScmVersions ==
    [tag : Tags, distance : 0..MaxDistance, node : Nodes,
     dirty : BOOLEAN, time : Dates]

----------------------------------------------------------------------------
(* Strings *)

RECURSIVE StrVersion(_)
\* str(v.tag): the release number joined by dots.
StrVersion(t) ==
    IF Len(t) = 0 THEN <<>>
    ELSE IF Len(t) = 1 THEN <<ToString(t[1])>>
    ELSE StrVersion(SubSeq(t, 1, Len(t) - 1)) \o <<".", ToString(t[Len(t)])>>

----------------------------------------------------------------------------
(* setuptools_scm: the version-resolution utility as conf.py uses it *)

\* A checkout is "exact" when it sits on the tag with a clean working tree.
Exact(v) == v.distance = 0 /\ ~v.dirty

\* The release number after t: its last component incremented.
GuessNext(t) == [t EXCEPT ![Len(t)] = t[Len(t)] + 1]

\* conf.py:21  the default version scheme (guess-next-dev)
GuessNextDev(v) ==
    IF Exact(v) THEN StrVersion(v.tag)
    ELSE StrVersion(GuessNext(v.tag)) \o <<".dev", ToString(v.distance)>>

\* conf.py:21  the default local scheme (node-and-date)
NodeAndDate(v) ==
    IF Exact(v) THEN <<>>
    ELSE <<"+", v.node>> \o (IF v.dirty THEN <<".d", v.time>> ELSE <<>>)

\* conf.py:17  version_scheme=lambda v: str(v.tag)
TagOnly(v) == StrVersion(v.tag)

\* Mutant of NoLocal: the local_scheme override is lost and the default
\* local scheme applies.
NoLocal_default(v) == NodeAndDate(v)

\* conf.py:18  local_scheme=lambda _: ""
NoLocal(v) == <<>>

\* conf.py:15-19  the keyword arguments of the stable call
StableCall ==
    [root |-> "../", version_scheme |-> "lambda v: str(v.tag)",
     local_scheme |-> "lambda _: ''"]

\* Mutant of DevCall: the development call made with the stable call's
\* overrides.
DevCall_overridden == StableCall

\* conf.py:21  the keyword arguments of the development call (schemes default)
DevCall ==
    [root |-> "../", version_scheme |-> "guess-next-dev",
     local_scheme |-> "node-and-date"]

ApplyScheme(name, v) ==
    CASE name = "lambda v: str(v.tag)" -> TagOnly(v)
      [] name = "lambda _: ''"         -> NoLocal(v)
      [] name = "guess-next-dev"       -> GuessNextDev(v)
      [] name = "node-and-date"        -> NodeAndDate(v)

\* get_version(**call): the version scheme's text followed by the local
\* scheme's text.
get_version(v, call) ==
    ApplyScheme(call.version_scheme, v) \o ApplyScheme(call.local_scheme, v)

\* Mutant of IsStable: the comparison ignores case.
IsStable_nocase(b) == b \in {Some("stable"), Some("Stable")}

\* conf.py:13  get_branch() == 'stable'
IsStable(b) == b = Some("stable")

----------------------------------------------------------------------------
(* The module namespace *)

EmptyNs == [n \in {} |-> TRUE]

Defined(name) == name \in DOMAIN ns

Bind(f, name, val) ==
    [n \in DOMAIN f \cup {name} |-> IF n = name THEN val ELSE f[n]]

\* A top-level assignment statement at line `at`, followed by line `next`.
Assign(at, next, name, val) ==
    /\ pc = at
    /\ ns' = Bind(ns, name, val)
    /\ pc' = next
    /\ UNCHANGED <<branch, scm, queries, calls, assigns, failure, prev>>

\* Mutant of Raise: the exception is caught, a placeholder release is bound
\* and the module carries on.
Raise_caught(step) ==
    /\ pc' = "L23"
    /\ failure' = step
    /\ ns' = Bind(ns, "release", <<"unknown">>)

\* An exception raised at top level: conf.py has no try statement, so the
\* run ends there with the namespace as it is.
Raise(step) ==
    /\ pc' = "failed"
    /\ failure' = step
    /\ UNCHANGED ns

----------------------------------------------------------------------------
(* One action per statement of conf.py *)

Init ==
    /\ branch \in Branches
    /\ scm \in ScmVersions
    /\ pc = "L8"
    /\ ns = EmptyNs
    /\ queries = 0
    /\ calls = <<>>
    /\ assigns = 0
    /\ failure = "none"
    /\ prev = <<>>

\* Mutant of L8: a placeholder release is bound before it is resolved.
L8_default_release ==
    /\ pc = "L8"
    /\ \/ pc' = "L13" /\ ns' = Bind(ns, "release", <<"unknown">>)
                      /\ UNCHANGED failure
       \/ Raise("import")
    /\ UNCHANGED <<branch, scm, queries, calls, assigns, prev>>

\* conf.py:8-11  the imports
L8 ==
    /\ pc = "L8"
    /\ \/ pc' = "L13" /\ UNCHANGED <<ns, failure>>
       \/ Raise("import")
    /\ UNCHANGED <<branch, scm, queries, calls, assigns, prev>>

\* conf.py:13  if GitWorkdir(...).get_branch() == 'stable':
L13 ==
    /\ pc = "L13"
    /\ queries' = queries + 1
    /\ \/ /\ pc' = IF IsStable(branch) THEN "L15" ELSE "L21"
          /\ UNCHANGED <<ns, failure>>
       \/ Raise("branch")
    /\ UNCHANGED <<branch, scm, calls, assigns, prev>>

\* release = get_version(**call), at line `at`
Release(at, call) ==
    /\ pc = at
    /\ calls' = Append(calls, call)
    /\ \/ /\ ns' = Bind(ns, "release", get_version(scm, call))
          /\ assigns' = assigns + 1
          /\ pc' = "L23"
          /\ UNCHANGED failure
       \/ Raise("version") /\ UNCHANGED assigns
    /\ UNCHANGED <<branch, scm, queries, prev>>

\* conf.py:15-19
L15 == Release("L15", StableCall)

\* Mutant of L21: the version is resolved twice and release bound twice.
L21_twice ==
    /\ pc = "L21"
    /\ calls' = Append(Append(calls, DevCall), DevCall)
    /\ ns' = Bind(ns, "release", get_version(scm, DevCall))
    /\ assigns' = assigns + 2
    /\ pc' = "L23"
    /\ UNCHANGED <<branch, scm, queries, failure, prev>>

\* conf.py:21
L21 == Release("L21", DevCall)

\* Mutant of L23: the project title depends on the branch.
L23_by_branch ==
    Assign("L23", "L24", "project",
           IF IsStable(branch) THEN "Configurature" ELSE "Configurature (dev)")

\* conf.py:23
L23 == Assign("L23", "L24", "project", "Configurature")

\* conf.py:24
L24 == Assign("L24", "L25", "copyright", "2024, Google LLC")

\* conf.py:25
L25 == Assign("L25", "L30", "author", "Ian Moore")

\* conf.py:30
L30 == Assign("L30", "L32", "extensions", <<>>)

\* conf.py:32
L32 == Assign("L32", "L33", "templates_path", <<>>)

\* conf.py:33
L33 == Assign("L33", "L36", "exclude_patterns", <<>>)

\* Mutant of L36: the second assignment to extensions is missing.
L36_missing ==
    /\ pc = "L36"
    /\ pc' = "L42"
    /\ UNCHANGED <<branch, scm, ns, queries, calls, assigns, failure, prev>>

\* conf.py:36-40
L36 ==
    Assign("L36", "L42", "extensions",
           <<"myst_parser", "sphinx_tabs.tabs", "sphinx.ext.autosectionlabel">>)

\* conf.py:42
L42 == Assign("L42", "L48", "autosectionlabel_prefix_document", TRUE)

\* conf.py:48
L48 == Assign("L48", "L49", "html_theme", "sphinx_rtd_theme")

\* Mutant of L49: the last assignment is missing.
L49_missing ==
    /\ pc = "L49"
    /\ pc' = "done"
    /\ UNCHANGED <<branch, scm, ns, queries, calls, assigns, failure, prev>>

\* conf.py:49  the last statement: the load has succeeded
L49 == Assign("L49", "done", "html_static_path", <<>>)

Terminated == pc \in {"done", "failed"}

\* The next documentation build: a fresh interpreter executes conf.py again,
\* in whatever state the checkout is in by then.
Rebuild ==
    /\ Terminated
    /\ prev' = IF pc = "done"
               THEN <<[branch |-> branch, scm |-> scm, ns |-> ns]>>
               ELSE prev
    /\ branch' \in Branches
    /\ scm' \in ScmVersions
    /\ pc' = "L8"
    /\ ns' = EmptyNs
    /\ queries' = 0
    /\ calls' = <<>>
    /\ assigns' = 0
    /\ failure' = "none"

\* One build invocation
Run ==
    \/ L8 \/ L13 \/ L15 \/ L21
    \/ L23 \/ L24 \/ L25
    \/ L30 \/ L32 \/ L33 \/ L36 \/ L42
    \/ L48 \/ L49

Next == Run \/ Rebuild

\* Build after build
Spec == Init /\ [][Next]_vars

\* A single build invocation; the interpreter keeps executing statements
\* until the module ends or an exception escapes.
RunSpec == Init /\ [][Run]_vars /\ WF_vars(Run)

----------------------------------------------------------------------------
(* Vocabulary of the properties *)

Stable == Some("stable")

\* r is the bare text of release number t: its components, dot-separated,
\* and nothing else.
BareTag(r, t) ==
    /\ Len(r) = 2 * Len(t) - 1
    /\ \A i \in 1..Len(r) :
          r[i] = IF i % 2 = 1 THEN ToString(t[(i + 1) \div 2]) ELSE "."

\* The pieces by which a distance, a hash or a date enters a version string.
SuffixPieces(v) == {".dev", "+", ".d", v.node, v.time}

Pieces(r) == {r[i] : i \in 1..Len(r)}

\* r ends with the pieces of sequence tail.
EndsWith(r, tail) ==
    /\ Len(r) >= Len(tail)
    /\ SubSeq(r, Len(r) - Len(tail) + 1, Len(r)) = tail

ContractNames ==
    {"project", "copyright", "author", "release", "extensions",
     "templates_path", "exclude_patterns", "html_theme", "html_static_path",
     "autosectionlabel_prefix_document"}

StaticNames == ContractNames \ {"release"}

ExtensionList ==
    <<"myst_parser", "sphinx_tabs.tabs", "sphinx.ext.autosectionlabel">>

----------------------------------------------------------------------------
(* Properties *)

\* C1: on branch 'stable' a loaded configuration has release equal to the
\* bare text of the latest tag, whatever the distance, hash, dirtiness and
\* date of the checkout: no distance, hash or date piece occurs in it.
C1_StableReleaseIsBareTag ==
    (pc = "done" /\ branch = Stable) =>
        /\ BareTag(ns.release, scm.tag)
        /\ Pieces(ns.release) \cap SuffixPieces(scm) = {}

C1_Witness ==
    /\ pc = "done"
    /\ branch = Stable
    /\ scm.distance > 0
    /\ scm.dirty

\* C2: on any other branch a loaded configuration has release equal to the
\* default development version: the bare tag on an exact checkout, otherwise
\* the next release number with .dev<distance>, +<hash> and, on a dirty
\* tree, .d<date>; and the one get_version call made passes neither the
\* bare-tag version scheme nor the empty local scheme.
C2_DevReleaseIsDefaultVersion ==
    (pc = "done" /\ branch # Stable) =>
        /\ Len(calls) = 1
        /\ calls[1].version_scheme # "lambda v: str(v.tag)"
        /\ calls[1].local_scheme # "lambda _: ''"
        /\ (scm.distance = 0 /\ ~scm.dirty) => BareTag(ns.release, scm.tag)
        /\ (scm.distance > 0 \/ scm.dirty) =>
              LET n == 2 * Len(scm.tag) - 1
                  tail == <<".dev", ToString(scm.distance), "+", scm.node>>
                          \o (IF scm.dirty THEN <<".d", scm.time>> ELSE <<>>)
              IN  /\ Len(ns.release) = n + Len(tail)
                  /\ BareTag(SubSeq(ns.release, 1, n), GuessNext(scm.tag))
                  /\ EndsWith(ns.release, tail)

C2_Witness ==
    /\ pc = "done"
    /\ branch = Some("main")
    /\ scm.distance > 0
    /\ ".dev" \in Pieces(ns.release)
    /\ scm.node \in Pieces(ns.release)

\* C3: within a build invocation a failure of the imports, the branch lookup
\* or the version resolution ends the run in the failed state with release
\* unbound, and the failed state is never left nor the namespace changed.
C3_FailureIsFatal ==
    /\ [](failure # "none" =>
            /\ pc = "failed"
            /\ ~Defined("release")
            /\ ~ENABLED Run)
    /\ [][pc = "failed" => (pc' = "failed" /\ ns' = ns)]_vars

C3_Witness ==
    /\ pc = "failed"
    /\ failure = "version"
    /\ Len(calls) = 1

\* C4: a loaded configuration defines exactly the ten names of the contract,
\* with the fixed values of the static ones.
C4_LoadedConfigurationComplete ==
    pc = "done" =>
        /\ DOMAIN ns = ContractNames
        /\ ns.project = "Configurature"
        /\ ns.copyright = "2024, Google LLC"
        /\ ns.author = "Ian Moore"
        /\ ns.html_theme = "sphinx_rtd_theme"
        /\ ns.autosectionlabel_prefix_document = TRUE
        /\ ns.templates_path = <<>>
        /\ ns.exclude_patterns = <<>>
        /\ ns.html_static_path = <<>>

C4_Witness ==
    /\ pc = "done"
    /\ failure = "none"
    /\ Cardinality(DOMAIN ns) = Cardinality(ContractNames)

\* C5: a build invocation terminates, and in it the branch is queried at
\* most once, get_version is called at most once, and release is bound at
\* most once and keeps its value once bound.
C5_RunsOnceAndTerminates ==
    /\ [](queries <= 1 /\ Len(calls) <= 1 /\ assigns <= 1)
    /\ [](Defined("release") <=> assigns = 1)
    /\ [][Defined("release") =>
            (Defined("release")' /\ ns'.release = ns.release
             /\ assigns' = assigns)]_vars
    /\ <>Terminated

C5_Witness ==
    /\ pc = "done"
    /\ queries = 1
    /\ Len(calls) = 1
    /\ assigns = 1

C7_ExtensionsFinalValue ==
    /\ pc \in {"L32", "L33", "L36"} =>
          (Defined("extensions") /\ ns.extensions = <<>>)
    /\ pc \in {"L42", "L48", "L49", "done"} => ns.extensions = ExtensionList
    /\ pc \notin {"L32", "L33", "L36", "L42", "L48", "L49", "done"} =>
          ~Defined("extensions")

C7_Witness ==
    /\ pc = "done"
    /\ Len(ns.extensions) = 3
    /\ ns.extensions[1] = "myst_parser"

\* C8: the stable call is made exactly when the reported branch is the
\* string 'stable'; None and every other name take the development call.
C8_StableIffExactMatch ==
    /\ pc = "L15" => branch = Stable
    /\ pc = "L21" => branch # Stable
    /\ calls # <<>> =>
          /\ (calls[1] = StableCall) <=> (branch = Stable)
          /\ (calls[1] = DevCall) <=> (branch # Stable)

C8_Witness ==
    /\ calls # <<>>
    /\ calls[1] = DevCall
    /\ branch = Some("Stable")

\* C9: release is the first name bound: when a run has failed nothing is
\* bound, and whenever anything is bound release is.
C9_NoPartialConfiguration ==
    /\ failure # "none" => DOMAIN ns = {}
    /\ DOMAIN ns # {} => Defined("release")

C9_Witness ==
    /\ failure = "branch"
    /\ pc = "failed"
    /\ queries = 1

====
